---- MODULE Spec2Model ----
(***************************************************************************)
(* Task progress aggregation of wtenv (src/commands/claude_task.rs): the   *)
(* event decoder, the session file reader, the task aggregator and the     *)
(* modification-time cache of TaskManager::load / TaskManager::refresh,    *)
(* together with the hook script (src/config.rs) that appends the event    *)
(* lines to ~/.claude/task-progress/<session_id>.jsonl.                    *)
(***************************************************************************)
EXTENDS Integers, Sequences, FiniteSets, TLC

VARIABLES
    files,        \* the progress directory: path -> file on disk
    clock,        \* the wall clock the filesystem stamps writes with
    tasks,        \* TaskManager.tasks: session_id -> ClaudeTask
    file_mtimes,  \* TaskManager.file_mtimes: path -> cached modification time
    step,         \* the operation that produced the current state
    reads,        \* paths whose content the last load/refresh tried to read, with the outcome
    result,       \* what the last load/refresh returned: "ok" or "err"
    pend,         \* per path: what has happened to the file since the manager last read it
    cutRead,      \* per path: whether the reads of the file saw a half-written last line
    steps,        \* steps of the hook and of the filesystem so far
    running,      \* whether the dashboard has built its TaskManager
    dir_exists,   \* whether ~/.claude/task-progress exists
    dir_error,    \* how listing the directory fails: "none", "open" or "entry"
    app,          \* the dashboard: whether it is up, and whether its last call logged a warning
    view,         \* the last query of the dashboard on its manager, with what it returned
    probe,        \* the two paths handed to is_in_worktree: the task's directory and the location
    loop,         \* run_app: the statement of the loop to run next, and app.should_quit
    scan          \* a load or refresh in progress: the entries still to visit, the one being visited

vars == <<files, dir_exists, dir_error, clock, tasks, file_mtimes, step, reads, result, pend,
          cutRead, steps, running, app, view, probe, loop, scan>>

-----------------------------------------------------------------------------
(* Bounds of the model.                                                    *)

\* steps of the hook and of the filesystem around the dashboard in one behaviour
MaxSteps == 2
\* the last instant of the clock
MaxTime == 2
\* lines of the file handed to the session file reader on its own
MaxLen == 3
\* events of one session in the directory the queries are asked on
MaxEvents == 2
\* characters of a path behind its leading separator
MaxPath == 3

-----------------------------------------------------------------------------
(* Events and lines.                                                       *)

\* Option::None of the tool and status fields
None == "None"
\* a JSON null value in a line
Null == "null"

\* enum TaskStatus, by its serde names (rename_all = "snake_case")
TaskStatus == {"in_progress", "stop", "session_ended", "error"}

\* the fields of TaskEvent that are not Option
RequiredFields == {"timestamp", "session_id", "event", "message", "cwd"}

NoObj == [f \in {} |-> ""]

\* A line of a session file as content.lines() yields it: blank, text that
\* is no JSON at all, or the text of a JSON object; cut = the text of the
\* object stops before its end (the hook has not finished writing it).
BlankLine == [kind |-> "blank", obj |-> NoObj, cut |-> FALSE]
GarbageLine == [kind |-> "text", obj |-> NoObj, cut |-> FALSE]
JsonLine(o) == [kind |-> "json", obj |-> o, cut |-> FALSE]
CutLine(o) == [kind |-> "json", obj |-> o, cut |-> TRUE]

\* The instants of the model as the hook writes them (datetime.isoformat
\* plus "Z"), in order: instant t is IsoTimes[t + 1].
IsoTimes == <<"10:00:00Z", "10:00:01Z", "10:00:02Z", "10:00:03Z", "10:00:04Z", "10:00:05Z">>

\* datetime.utcnow().isoformat() + "Z" of the hook
IsoFormat(t) == IsoTimes[t + 1]

\* the DateTime<Utc> a timestamp string parses to
IsTimestamp(s) == \E i \in 1..Len(IsoTimes) : IsoTimes[i] = s
ParseTimestamp(s) == (CHOOSE i \in 1..Len(IsoTimes) : IsoTimes[i] = s) - 1

\* Option<T> field of a JSON object: absent and null both give None
OptField(o, f) == IF f \in DOMAIN o /\ o[f] # Null THEN o[f] ELSE None

\* the decoder as it would be if the status field were required
DecodesStatusRequired(line) ==
    /\ line.kind = "json"
    /\ ~line.cut
    /\ RequiredFields \cup {"status"} \subseteq DOMAIN line.obj
    /\ \A f \in RequiredFields : line.obj[f] # Null
    /\ IsTimestamp(line.obj["timestamp"])
    /\ OptField(line.obj, "status") \in TaskStatus \cup {None}

\* serde_json::from_str::<TaskEvent>(line)
Decodes(line) ==
    /\ line.kind = "json"
    /\ ~line.cut
    /\ RequiredFields \subseteq DOMAIN line.obj
    /\ \A f \in RequiredFields : line.obj[f] # Null
    /\ IsTimestamp(line.obj["timestamp"])
    /\ OptField(line.obj, "status") \in TaskStatus \cup {None}

DecodedEvent(line) ==
    [timestamp |-> ParseTimestamp(line.obj["timestamp"]),
     session_id |-> line.obj["session_id"],
     event |-> line.obj["event"],
     tool |-> OptField(line.obj, "tool"),
     status |-> OptField(line.obj, "status"),
     message |-> line.obj["message"],
     cwd |-> line.obj["cwd"]]

-----------------------------------------------------------------------------
(* ClaudeTask.                                                             *)

\* ClaudeTask::new
ClaudeTaskNew(event) ==
    [session_id |-> event.session_id,
     start_time |-> event.timestamp,
     last_update |-> event.timestamp,
     status |-> IF event.status = None THEN "stop" ELSE event.status,
     events |-> <<event>>,
     worktree_path |-> event.cwd,
     last_message |-> event.message]

\* add_event as it would be if last_update never went back in time
TaskAddEventKeepsLatest(task, event) ==
    [task EXCEPT
        !.last_update = IF event.timestamp > @ THEN event.timestamp ELSE @,
        !.status = IF event.status # None THEN event.status ELSE @,
        !.worktree_path = event.cwd,
        !.last_message = IF event.message # "" /\ event.message # "Unknown event"
                         THEN event.message ELSE @,
        !.events = Append(@, event)]

\* add_event as it would be if an event without a status reset the status
TaskAddEventResetsStatus(task, event) ==
    [task EXCEPT
        !.last_update = event.timestamp,
        !.status = IF event.status # None THEN event.status ELSE "stop",
        !.worktree_path = event.cwd,
        !.last_message = IF event.message # "" /\ event.message # "Unknown event"
                         THEN event.message ELSE @,
        !.events = Append(@, event)]

\* ClaudeTask::add_event
TaskAddEvent(task, event) ==
    [task EXCEPT
        !.last_update = event.timestamp,
        !.status = IF event.status # None THEN event.status ELSE @,
        !.worktree_path = event.cwd,
        !.last_message = IF event.message # "" /\ event.message # "Unknown event"
                         THEN event.message ELSE @,
        !.events = Append(@, event)]

-----------------------------------------------------------------------------
(* TaskManager: the maps are functions whose domain is the set of keys.    *)

EmptyMap == [k \in {} |-> 0]

\* HashMap::insert
MapInsert(m, k, v) == [x \in DOMAIN m \cup {k} |-> IF x = k THEN v ELSE m[x]]

\* HashMap::remove
MapRemove(m, k) == [x \in DOMAIN m \ {k} |-> m[x]]

\* TaskManager::add_event
\* TaskManager::add_event as it would be with an insert in place of the
\* entry API: the task of the session is made anew by each event
AddEventReplaces(ts, event) ==
    MapInsert(ts, event.session_id, ClaudeTaskNew(event))

AddEvent(ts, event) ==
    IF event.session_id \in DOMAIN ts
    THEN MapInsert(ts, event.session_id, TaskAddEvent(ts[event.session_id], event))
    ELSE MapInsert(ts, event.session_id, ClaudeTaskNew(event))

\* the loop as it would be if the first line that does not decode ended it
RECURSIVE ReadLinesStopAtError(_, _, _)
ReadLinesStopAtError(lines, i, acc) ==
    IF i > Len(lines) THEN acc
    ELSE IF lines[i].kind = "blank" THEN ReadLinesStopAtError(lines, i + 1, acc)
    ELSE IF Decodes(lines[i])
         THEN ReadLinesStopAtError(lines, i + 1,
                  [acc EXCEPT !.tasks = AddEvent(@, DecodedEvent(lines[i])),
                              !.valid_events = @ + 1])
         ELSE [acc EXCEPT !.parse_errors = @ + 1]

\* The loop of TaskManager::load_session_file over content.lines(), from
\* line i on: acc = [tasks, valid_events, parse_errors].
RECURSIVE ReadLines(_, _, _)
ReadLines(lines, i, acc) ==
    IF i > Len(lines) THEN acc
    ELSE IF lines[i].kind = "blank" THEN ReadLines(lines, i + 1, acc)
    ELSE IF Decodes(lines[i])
         THEN ReadLines(lines, i + 1,
                  [acc EXCEPT !.tasks = AddEvent(@, DecodedEvent(lines[i])),
                              !.valid_events = @ + 1])
         ELSE ReadLines(lines, i + 1, [acc EXCEPT !.parse_errors = @ + 1])

\* the reader as it would be if a line that does not decode failed the call
LoadSessionFileStrict(ts, file) ==
    IF ~file.readable \/ \E i \in 1..Len(file.lines) :
                            file.lines[i].kind # "blank" /\ ~Decodes(file.lines[i])
    THEN [ok |-> FALSE, tasks |-> ts, valid_events |-> 0, parse_errors |-> 0]
    ELSE ReadLines(file.lines, 1,
             [ok |-> TRUE, tasks |-> ts, valid_events |-> 0, parse_errors |-> 0])

\* TaskManager::load_session_file: fs::read_to_string fails on a file that
\* cannot be read and the map is left as it was; otherwise every line is
\* visited and the call returns Ok.
LoadSessionFile(ts, file) ==
    IF ~file.readable
    THEN [ok |-> FALSE, tasks |-> ts, valid_events |-> 0, parse_errors |-> 0]
    ELSE ReadLines(file.lines, 1,
             [ok |-> TRUE, tasks |-> ts, valid_events |-> 0, parse_errors |-> 0])

-----------------------------------------------------------------------------
(* The progress directory and the hook that writes it.                     *)

Sessions == {"a", "b"}

SessionPath(sid) == [stem |-> sid, ext |-> "jsonl"]
ErrorLog == [stem |-> "errors", ext |-> "log"]
Paths == {SessionPath(sid) : sid \in Sessions} \cup {ErrorLog}

\* What Claude Code hands the hook on stdin, less the session: the event
\* name, the tool, the working directory, whether the tool result reports
\* an error and whether a notification asks for permission or input.
StartInput == [hook_event_name |-> "SessionStart", tool_name |-> "", cwd |-> "/w1",
               tool_error |-> FALSE, asks_input |-> FALSE]
ToolInput == [hook_event_name |-> "PostToolUse", tool_name |-> "Bash", cwd |-> "/w2",
              tool_error |-> FALSE, asks_input |-> FALSE]
HookInputs == {StartInput, ToolInput}

\* get_task_status of the hook
GetTaskStatus(d) ==
    CASE d.hook_event_name = "SessionStart" -> None
      [] d.hook_event_name = "UserPromptSubmit" -> "in_progress"
      [] d.hook_event_name = "Stop" -> "stop"
      [] d.hook_event_name = "SessionEnd" -> "session_ended"
      [] d.hook_event_name = "Notification" ->
             IF d.asks_input THEN "stop" ELSE None
      [] d.hook_event_name = "PostToolUse" ->
             IF d.tool_error THEN "error" ELSE "in_progress"
      [] OTHER -> "in_progress"

\* get_event_message of the hook
GetEventMessage(d) ==
    CASE d.hook_event_name = "SessionStart" -> "Session started"
      [] d.hook_event_name = "UserPromptSubmit" -> "Processing user prompt"
      [] d.hook_event_name = "SessionEnd" -> "Session completed"
      [] d.hook_event_name = "Stop" -> "Waiting for user response"
      [] d.hook_event_name = "PostToolUse" ->
             IF d.tool_name = "Bash" THEN "Executed: cmd" ELSE "Used tool"
      [] OTHER -> "Unknown event"

\* event_record of the hook's main: the status key is written only when
\* the status is not None, the tool is null when there is no tool name.
EventRecord(sid, d, now) ==
    LET base == [timestamp |-> IsoFormat(now),
                 session_id |-> sid,
                 event |-> d.hook_event_name,
                 tool |-> IF d.tool_name # "" THEN d.tool_name ELSE Null,
                 message |-> GetEventMessage(d),
                 cwd |-> d.cwd]
    IN IF GetTaskStatus(d) # None
       THEN [f \in DOMAIN base \cup {"status"} |->
                IF f = "status" THEN GetTaskStatus(d) ELSE base[f]]
       ELSE base

\* the instants a write can happen at: now, or after the clock has moved on
Instants == {t \in {clock, clock + 1} : t <= MaxTime}

NewFile == [mtime |-> 0, lines |-> <<>>, readable |-> TRUE]

FileOf(p) == IF p \in DOMAIN files THEN files[p] ELSE NewFile

LastLineCut(f) == Len(f.lines) > 0 /\ f.lines[Len(f.lines)].cut

PathState(m, p) == IF p \in DOMAIN m THEN m[p] ELSE "none"

\* One step of the world around the dashboard: the directory becomes f at
\* instant now; what the step leaves alone.
EnvStep(f, now, name) ==
    /\ steps < MaxSteps
    /\ steps' = steps + 1
    /\ files' = f
    /\ clock' = now
    /\ step' = name
    /\ UNCHANGED <<tasks, file_mtimes, reads, result, running, app, view, probe, loop, scan>>

\* A write of the hook to path p at instant now: the file gets mtime now; a
\* write that leaves the mtime where a refresh has seen it is remembered.
Written(p, newLines, now) ==
    /\ EnvStep(MapInsert(files, p, [FileOf(p) EXCEPT !.mtime = now, !.lines = newLines]),
               now, "Hook")
    /\ dir_exists' = TRUE
    /\ UNCHANGED dir_error
    /\ pend' = MapInsert(pend, p,
                 IF /\ p \in DOMAIN files
                    /\ files[p].mtime = now
                    /\ PathState(pend, p) \in {"seen", "retaken", "coalesced"}
                 THEN "coalesced" ELSE "written")
    /\ UNCHANGED cutRead

\* main of the hook, the line written in one piece
HookAppend(sid, d) ==
    \E now \in Instants :
        /\ ~LastLineCut(FileOf(SessionPath(sid)))
        /\ Written(SessionPath(sid),
                   Append(FileOf(SessionPath(sid)).lines, JsonLine(EventRecord(sid, d, now))),
                   now)

\* main of the hook, the first part of the line reaching the disk
HookBeginAppend(sid, d) ==
    \E now \in Instants :
        /\ ~LastLineCut(FileOf(SessionPath(sid)))
        /\ Written(SessionPath(sid),
                   Append(FileOf(SessionPath(sid)).lines, CutLine(EventRecord(sid, d, now))),
                   now)

\* main of the hook, the rest of the line and its newline reaching the disk
HookFinishAppend(sid) ==
    \E now \in Instants :
        /\ SessionPath(sid) \in DOMAIN files
        /\ LastLineCut(files[SessionPath(sid)])
        /\ LET ls == files[SessionPath(sid)].lines
           IN Written(SessionPath(sid),
                      [ls EXCEPT ![Len(ls)] = JsonLine(@.obj)], now)

\* the except branch of the hook's main: a text entry in errors.log
HookLogError ==
    \E now \in Instants :
        Written(ErrorLog, Append(FileOf(ErrorLog).lines, GarbageLine), now)

-----------------------------------------------------------------------------
(* What else happens to the session files of the directory.                *)

Fault(p, f, now) ==
    /\ p \in DOMAIN files
    /\ p.ext = "jsonl"
    /\ EnvStep(f, now, "Fault")
    /\ pend' = MapRemove(pend, p)
    /\ UNCHANGED <<dir_exists, dir_error>>

\* chmod: the file stops or starts being readable; its mtime stays
Chmod(p) ==
    /\ Fault(p, [files EXCEPT ![p].readable = ~@], clock)
    /\ UNCHANGED cutRead

\* the file gets an earlier mtime (touch -d, a restored copy, a clock set back)
TouchBack(p) ==
    /\ \E m \in 0..(FileOf(p).mtime - 1) :
          Fault(p, [files EXCEPT ![p].mtime = m], clock)
    /\ UNCHANGED cutRead

\* the file is deleted
Unlink(p) ==
    /\ Fault(p, MapRemove(files, p), clock)
    /\ cutRead' = MapRemove(cutRead, p)

\* The file gets a later mtime and keeps its content (touch, a copy put
\* back): the manager's cache entry for it is no longer current. It is
\* remembered when the manager holds the task of this very content.
Touch(p) ==
    /\ p \in DOMAIN files
    /\ p.ext = "jsonl"
    /\ \E now \in Instants :
          /\ now > files[p].mtime
          /\ EnvStep([files EXCEPT ![p].mtime = now], now, "Fault")
    /\ pend' = IF /\ p.stem \in DOMAIN tasks
                  /\ p \in DOMAIN file_mtimes
                  /\ <<tasks[p.stem]>> = (IF p.stem \in DOMAIN LoadSessionFile(EmptyMap, files[p]).tasks
                                          THEN <<LoadSessionFile(EmptyMap, files[p]).tasks[p.stem]>>
                                          ELSE <<>>)
               THEN MapInsert(pend, p, "touched")
               ELSE MapRemove(pend, p)
    /\ UNCHANGED <<dir_exists, dir_error, cutRead>>

-----------------------------------------------------------------------------
(* TaskManager::load and TaskManager::refresh.                             *)

\* fs::read_dir yields the entries of the directory in any order
RECURSIVE Orders(_)
Orders(S) ==
    IF S = {} THEN {<<>>}
    ELSE UNION {{<<x>> \o o : o \in Orders(S \ {x})} : x \in S}

\* what a scan tells about the read of one file
ReadOutcome(r) ==
    [ok |-> r.ok, valid_events |-> r.valid_events, parse_errors |-> r.parse_errors]

\* TaskManager::new
NewManager == [tasks |-> EmptyMap, file_mtimes |-> EmptyMap, reads |-> EmptyMap, result |-> "ok"]

\* One iteration of the loop of TaskManager::load over the directory
\* entries: m = the manager so far, p = entry.path(). The mtime is cached
\* before the file is read, and a failed read is only reported on stderr.
LoadEntry(m, p) ==
    IF p.ext # "jsonl" THEN m
    ELSE LET r == LoadSessionFile(m.tasks, files[p])
         IN [m EXCEPT !.file_mtimes = MapInsert(@, p, files[p].mtime),
                      !.tasks = r.tasks,
                      !.reads = MapInsert(@, p, ReadOutcome(r))]

\* the iteration as it would be if a failed read ended the refresh with Err
RefreshEntryPropagates(m, p) ==
    IF p.ext # "jsonl" \/ m.result = "err" THEN m
    ELSE LET current_mtime == files[p].mtime
             should_reload == IF p \in DOMAIN m.file_mtimes
                              THEN current_mtime > m.file_mtimes[p]
                              ELSE TRUE
             r == LoadSessionFile(MapRemove(m.tasks, p.stem), files[p])
         IN IF ~should_reload THEN m
            ELSE [m EXCEPT !.tasks = r.tasks,
                           !.reads = MapInsert(@, p, ReadOutcome(r)),
                           !.result = IF r.ok THEN "ok" ELSE "err",
                           !.file_mtimes = MapInsert(@, p, current_mtime)]

\* the iteration as it would be without self.tasks.remove(file_stem)
RefreshEntryNoDrop(m, p) ==
    IF p.ext # "jsonl" THEN m
    ELSE LET current_mtime == files[p].mtime
             should_reload == IF p \in DOMAIN m.file_mtimes
                              THEN current_mtime > m.file_mtimes[p]
                              ELSE TRUE
             r == LoadSessionFile(m.tasks, files[p])
         IN IF ~should_reload THEN m
            ELSE [m EXCEPT !.tasks = r.tasks,
                           !.reads = MapInsert(@, p, ReadOutcome(r)),
                           !.file_mtimes = MapInsert(@, p, current_mtime)]

\* the iteration as it would be if an unchanged mtime counted as a change
RefreshEntryReloadsUnchanged(m, p) ==
    IF p.ext # "jsonl" THEN m
    ELSE LET current_mtime == files[p].mtime
             should_reload == IF p \in DOMAIN m.file_mtimes
                              THEN current_mtime >= m.file_mtimes[p]
                              ELSE TRUE
             r == LoadSessionFile(MapRemove(m.tasks, p.stem), files[p])
         IN IF ~should_reload THEN m
            ELSE [m EXCEPT !.tasks = r.tasks,
                           !.reads = MapInsert(@, p, ReadOutcome(r)),
                           !.file_mtimes = MapInsert(@, p, current_mtime)]

\* One iteration of the loop of TaskManager::refresh: a file is read when
\* it has no cache entry or a later mtime than the cached one; the task
\* under the file stem is dropped first, and the mtime is cached whether
\* the read succeeded or not.
RefreshEntry(m, p) ==
    IF p.ext # "jsonl" THEN m
    ELSE LET current_mtime == files[p].mtime
             should_reload == IF p \in DOMAIN m.file_mtimes
                              THEN current_mtime > m.file_mtimes[p]
                              ELSE TRUE
             r == LoadSessionFile(MapRemove(m.tasks, p.stem), files[p])
         IN IF ~should_reload THEN m
            ELSE [m EXCEPT !.tasks = r.tasks,
                           !.reads = MapInsert(@, p, ReadOutcome(r)),
                           !.file_mtimes = MapInsert(@, p, current_mtime)]

RECURSIVE LoadScan(_, _, _)
LoadScan(order, i, m) ==
    IF i > Len(order) THEN m ELSE LoadScan(order, i + 1, LoadEntry(m, order[i]))

\* the scan of refresh as it would be if it ended by forgetting the files
\* it has not met in the directory
RECURSIVE RefreshScanPurges(_, _, _)
RefreshScanPurges(order, i, m) ==
    IF i > Len(order)
    THEN LET met == {order[j] : j \in 1..Len(order)}
         IN [m EXCEPT
                !.tasks = [sid \in {x \in DOMAIN m.tasks :
                                       \E q \in met : q.stem = x} |-> m.tasks[sid]],
                !.file_mtimes = [q \in DOMAIN m.file_mtimes \cap met |->
                                    m.file_mtimes[q]]]
    ELSE RefreshScanPurges(order, i + 1, RefreshEntry(m, order[i]))

RECURSIVE RefreshScan(_, _, _)
RefreshScan(order, i, m) ==
    IF i > Len(order) THEN m ELSE RefreshScan(order, i + 1, RefreshEntry(m, order[i]))

\* the half-written last lines the reads of a scan saw, and the reads that
\* found such a line completed
CutSeen(m) ==
    [p \in (DOMAIN cutRead \cup {q \in DOMAIN m.reads : m.reads[q].ok}) |->
        IF p \in DOMAIN m.reads /\ m.reads[p].ok
        THEN IF LastLineCut(files[p]) THEN "cut"
             ELSE IF PathState(cutRead, p) = "cut" /\ Len(files[p].lines) > 0
                     /\ Decodes(files[p].lines[Len(files[p].lines)])
                  THEN "healed" ELSE "no"
        ELSE cutRead[p]]

Installed(m) ==
    /\ tasks' = m.tasks
    /\ file_mtimes' = m.file_mtimes
    /\ reads' = m.reads
    /\ result' = m.result
    /\ UNCHANGED <<files, dir_exists, dir_error, clock, steps, view, probe, scan>>

\* The prefixes of a sequence: the entries a scan has gone through when
\* the iterator of fs::read_dir yields an error (`let entry = entry?`).
Prefixes(order) == {SubSeq(order, 1, n) : n \in 0..Len(order)}

Failed(m) == [m EXCEPT !.result = "err"]

\* What TaskManager::load can return for the directory as it is: Ok of a
\* new manager when the directory does not exist, Err when the directory
\* cannot be listed or an entry cannot be read, else Ok of the manager the
\* scan has built.
LoadOutcomes ==
    IF ~dir_exists THEN {NewManager}
    ELSE IF dir_error = "open" THEN {Failed(NewManager)}
    ELSE IF dir_error = "entry"
         THEN {Failed(LoadScan(pre, 1, NewManager)) :
                  pre \in UNION {Prefixes(o) : o \in Orders(DOMAIN files)}}
         ELSE {LoadScan(order, 1, NewManager) : order \in Orders(DOMAIN files)}

\* refresh as it would be if a missing directory were an error
RefreshOutcomesMissingDirFails(m0) ==
    IF ~dir_exists \/ dir_error = "open"
    THEN {Failed(m0)}
    ELSE IF dir_error = "entry"
         THEN {Failed(RefreshScan(pre, 1, m0)) :
                  pre \in UNION {Prefixes(o) : o \in Orders(DOMAIN files)}}
         ELSE {RefreshScan(order, 1, m0) : order \in Orders(DOMAIN files)}

\* What TaskManager::refresh can leave of manager m0, with its result: the
\* changes of the entries gone through before an error stay.
RefreshOutcomes(m0) ==
    IF ~dir_exists \/ dir_error = "open"
    THEN {IF dir_exists THEN Failed(m0) ELSE m0}
    ELSE IF dir_error = "entry"
         THEN {Failed(RefreshScan(pre, 1, m0)) :
                  pre \in UNION {Prefixes(o) : o \in Orders(DOMAIN files)}}
         ELSE {RefreshScan(order, 1, m0) : order \in Orders(DOMAIN files)}

\* App::refresh as it would be if it returned the error of the manager
AppRefreshPropagates(r) == r

\* What App::refresh returns when TaskManager::refresh has returned r: the
\* error is printed and the call goes on to return Ok(()).
AppRefresh(r) == "ok"

\* The manager App::new takes from TaskManager::load: the manager of Ok,
\* TaskManager::default() for Err.
AppTaskManager(m) ==
    IF m.result = "err" THEN Failed(NewManager) ELSE m

\* run_app after a call of app.refresh() that returned r: `?` ends the loop
RunApp(r) == IF r = "err" THEN "exited" ELSE "running"

\* App::new on TaskManager::load: the dashboard starts with what the
\* directory holds, or with an empty manager when load has failed.
Load ==
    /\ ~running
    /\ running' = TRUE
    /\ step' = "Load"
    /\ pend' = EmptyMap
    /\ cutRead' = EmptyMap
    /\ \E m \in LoadOutcomes :
          /\ Installed(AppTaskManager(m))
          /\ app' = [state |-> "running", warned |-> m.result = "err"]
    /\ UNCHANGED loop

\* App::refresh on TaskManager::refresh: what the call does to the manager
\* and to the dashboard
RefreshCall ==
    /\ running
    /\ app.state = "running"
    /\ UNCHANGED running
    /\ step' = IF step \in {"Refresh", "RefreshAgain"} THEN "RefreshAgain" ELSE "Refresh"
    /\ LET m0 == [tasks |-> tasks, file_mtimes |-> file_mtimes,
                  reads |-> EmptyMap, result |-> "ok"]
       IN \E m \in RefreshOutcomes(m0) :
             /\ Installed(m)
             /\ app' = [state |-> RunApp(AppRefresh(m.result)), warned |-> m.result = "err"]
             /\ IF ~dir_exists
                THEN UNCHANGED <<pend, cutRead>>
                ELSE /\ cutRead' = CutSeen(m)
                     /\ pend' = [p \in DOMAIN pend |->
                                    IF p \in DOMAIN m.reads /\ m.reads[p].ok
                                    THEN IF pend[p] = "touched" THEN "retaken" ELSE "seen"
                                    ELSE pend[p]]

\* App::refresh, called from run_app at any of its iterations
Refresh == RefreshCall /\ UNCHANGED loop

\* The directory stops or starts being listable: its permissions change
\* (fs::read_dir fails), or reading an entry of it fails.
DirFault(e) ==
    /\ dir_exists
    /\ e # dir_error
    /\ steps < MaxSteps
    /\ steps' = steps + 1
    /\ dir_error' = e
    /\ step' = "Fault"
    /\ UNCHANGED <<files, dir_exists, clock, tasks, file_mtimes, reads, result, pend,
                   cutRead, running, app, view, probe, loop, scan>>

-----------------------------------------------------------------------------
(* The queries of the dashboard on the manager.                            *)

\* no query asked yet, no paths handed to is_in_worktree
NoView == [query |-> "none", of |-> "", order |-> <<>>, value |-> <<>>]
NoProbe == [cwd |-> <<>>, location |-> <<>>]

\* run_app before its first iteration: terminal.draw is the next statement
\* and App::new has set should_quit to false
NoLoop == [pc |-> "draw", should_quit |-> FALSE]

\* no load or refresh is part-way through the directory
NoScan == [call |-> "none", todo |-> <<>>, held |-> <<>>]

\* ClaudeTask::has_started
HasStartedMoreThanOne(task) == Len(task.events) > 1

HasStarted(task) ==
    \/ Len(task.events) > 1
    \/ (Len(task.events) > 0 /\ task.events[1].event # "SessionStart")

\* The place of a task in a vector sorted by last_update, latest first: slice::sort_by
\* is stable, so a task goes behind the tasks that compare equal to it.
InsertByLastUpdateAscending(ts, sorted, sid) ==
    LET before == {i \in 1..Len(sorted) :
                      ts[sorted[i]].last_update <= ts[sid].last_update}
    IN SubSeq(sorted, 1, Cardinality(before)) \o <<sid>>
           \o SubSeq(sorted, Cardinality(before) + 1, Len(sorted))

InsertByLastUpdate(ts, sorted, sid) ==
    LET before == {i \in 1..Len(sorted) :
                      ts[sorted[i]].last_update >= ts[sid].last_update}
    IN SubSeq(sorted, 1, Cardinality(before)) \o <<sid>>
           \o SubSeq(sorted, Cardinality(before) + 1, Len(sorted))

\* tasks.sort_by(|a, b| b.last_update.cmp(&a.last_update)) on the tasks
\* of ts in the order `order`; a reference to a task is given by its key
RECURSIVE SortByLastUpdate(_, _, _, _)
SortByLastUpdate(ts, order, i, sorted) ==
    IF i > Len(order) THEN sorted
    ELSE SortByLastUpdate(ts, order, i + 1, InsertByLastUpdate(ts, sorted, order[i]))

\* TaskManager::all_tasks, self.tasks.values() yielding the tasks in `order`
AllTasks(ts, order) == SortByLastUpdate(ts, order, 1, <<>>)

\* active_tasks as it would be without the test of has_started
ActiveTasksNotEnded(ts, order) ==
    SelectSeq(AllTasks(ts, order), LAMBDA sid : ts[sid].status # "session_ended")

\* TaskManager::active_tasks
ActiveTasks(ts, order) ==
    SelectSeq(AllTasks(ts, order),
              LAMBDA sid : ts[sid].status # "session_ended" /\ HasStarted(ts[sid]))

\* the loop as it would be if every task replaced the one of its directory
RECURSIVE WorktreeLatestLastSeen(_, _, _, _)
WorktreeLatestLastSeen(ts, order, i, latest) ==
    IF i > Len(order) THEN latest
    ELSE WorktreeLatestLastSeen(ts, order, i + 1,
             MapInsert(latest, ts[order[i]].worktree_path, order[i]))

\* The loop of latest_tasks_by_worktree over self.tasks.values(): the map
\* from worktree_path to the task kept for it so far.
RECURSIVE WorktreeLatest(_, _, _, _)
WorktreeLatest(ts, order, i, latest) ==
    IF i > Len(order) THEN latest
    ELSE LET sid == order[i]
             worktree == ts[sid].worktree_path
         IN WorktreeLatest(ts, order, i + 1,
                IF worktree \in DOMAIN latest
                THEN IF ts[sid].last_update > ts[latest[worktree]].last_update
                     THEN MapInsert(latest, worktree, sid)
                     ELSE latest
                ELSE MapInsert(latest, worktree, sid))

\* TaskManager::latest_tasks_by_worktree: the values of the map, in the
\* order `kept` of its iteration, sorted by last_update
LatestTasksByWorktree(ts, order, kept) ==
    LET latest == WorktreeLatest(ts, order, 1, EmptyMap)
    IN SortByLastUpdate(ts, [i \in 1..Len(kept) |-> latest[kept[i]]], 1, <<>>)

\* status_counts as it would be if the map had an entry for every status
StatusCountsEveryStatus(ts, order) ==
    [st \in TaskStatus |-> Cardinality({i \in 1..Len(order) : ts[order[i]].status = st})]

\* The loop of status_counts over self.tasks.values():
\* *counts.entry(task.status).or_insert(0) += 1
RECURSIVE CountStatus(_, _, _, _)
CountStatus(ts, order, i, counts) ==
    IF i > Len(order) THEN counts
    ELSE LET st == ts[order[i]].status
         IN CountStatus(ts, order, i + 1,
                MapInsert(counts, st,
                          (IF st \in DOMAIN counts THEN counts[st] ELSE 0) + 1))

\* TaskManager::status_counts
StatusCounts(ts, order) == CountStatus(ts, order, 1, EmptyMap)

\* a query of the dashboard: the manager is left as it is; the view keeps
\* the order in which self.tasks.values() has yielded the tasks
Asked(v) ==
    /\ running
    /\ view' = v
    /\ step' = "Query"
    /\ UNCHANGED <<files, dir_exists, dir_error, clock, tasks, file_mtimes, reads, result,
                   pend, cutRead, steps, running, app, probe, loop, scan>>

QueryHasStarted(sid) ==
    /\ sid \in DOMAIN tasks
    /\ Asked([query |-> "has_started", of |-> sid, order |-> <<>>,
              value |-> HasStarted(tasks[sid])])

QueryAllTasks ==
    \E order \in Orders(DOMAIN tasks) :
        Asked([query |-> "all_tasks", of |-> "", order |-> order,
               value |-> AllTasks(tasks, order)])

QueryActiveTasks ==
    \E order \in Orders(DOMAIN tasks) :
        Asked([query |-> "active_tasks", of |-> "", order |-> order,
               value |-> ActiveTasks(tasks, order)])

QueryStatusCounts ==
    \E order \in Orders(DOMAIN tasks) :
        Asked([query |-> "status_counts", of |-> "", order |-> order,
               value |-> StatusCounts(tasks, order)])

QueryLatestTasksByWorktree ==
    \E order \in Orders(DOMAIN tasks) :
        \E kept \in Orders(DOMAIN WorktreeLatest(tasks, order, 1, EmptyMap)) :
            Asked([query |-> "latest_tasks_by_worktree", of |-> "", order |-> order,
                   value |-> LatestTasksByWorktree(tasks, order, kept)])

-----------------------------------------------------------------------------
(* The dashboard and the hook, side by side.                               *)

\* What earlier runs of the hook have left in the directory when the
\* behaviour starts: nothing, or the files of two sessions.
TwoSessions ==
    [p \in {SessionPath("a"), SessionPath("b")} |->
        [mtime |-> 0, readable |-> TRUE,
         lines |-> <<JsonLine(EventRecord(p.stem,
                        IF p.stem = "a" THEN StartInput ELSE ToolInput, 0))>>]]
InitialDirs == {EmptyMap, TwoSessions}

Init ==
    /\ files \in InitialDirs
    /\ dir_exists = (files # EmptyMap)
    /\ dir_error = "none"
    /\ app = [state |-> "new", warned |-> FALSE]
    /\ view = NoView
    /\ probe = NoProbe
    /\ loop = NoLoop
    /\ scan = NoScan
    /\ clock = 1
    /\ tasks = EmptyMap
    /\ file_mtimes = EmptyMap
    /\ step = "Init"
    /\ reads = EmptyMap
    /\ result = "ok"
    /\ pend = EmptyMap
    /\ cutRead = EmptyMap
    /\ steps = 0
    /\ running = FALSE

Next ==
    \/ \E sid \in Sessions, d \in HookInputs : HookAppend(sid, d)
    \/ \E sid \in Sessions, d \in HookInputs : HookBeginAppend(sid, d)
    \/ \E sid \in Sessions : HookFinishAppend(sid)
    \/ HookLogError
    \/ \E p \in Paths : Chmod(p)
    \/ \E p \in Paths : TouchBack(p)
    \/ \E p \in Paths : Unlink(p)
    \/ \E p \in Paths : Touch(p)
    \/ Load
    \/ Refresh

Spec == Init /\ [][Next]_vars

\* The dashboard beside the hook in a directory that cannot always be
\* listed.
\* The progress directory is removed with all it holds: progress_dir.exists()
\* is false from then on, until the hook makes the directory again.
RemoveDir ==
    /\ dir_exists
    /\ EnvStep(EmptyMap, clock, "Fault")
    /\ dir_exists' = FALSE
    /\ dir_error' = "none"
    /\ pend' = EmptyMap
    /\ cutRead' = EmptyMap

DashNext ==
    \/ \E sid \in Sessions, d \in HookInputs : HookAppend(sid, d)
    \/ \E p \in Paths : Chmod(p)
    \/ RemoveDir
    \/ \E e \in {"none", "open", "entry"} : DirFault(e)
    \/ Load
    \/ Refresh

DashSpec == Init /\ [][DashNext]_vars

-----------------------------------------------------------------------------
(* A session file under another name in the progress directory.            *)

\* a file of the directory that is not named after a session
CopyPath == [stem |-> "backup", ext |-> "jsonl"]

\* cp <sid>.jsonl backup.jsonl in the progress directory: the copy has the
\* lines of the session file and the time of the copy as its mtime. The
\* scans take every *.jsonl entry of the directory, whatever its stem. A
\* copy made again is of the same session file, which has only grown.
CopyFile(sid) ==
    \E now \in Instants :
        /\ SessionPath(sid) \in DOMAIN files
        /\ CopyPath \in DOMAIN files =>
               LET old == files[CopyPath].lines
                   new == files[SessionPath(sid)].lines
               IN Len(old) <= Len(new) /\ SubSeq(new, 1, Len(old)) = old
        /\ EnvStep(MapInsert(files, CopyPath,
                       [files[SessionPath(sid)] EXCEPT !.mtime = now]),
                   now, "Fault")
        /\ UNCHANGED <<dir_exists, dir_error, pend, cutRead>>

CopyNext ==
    \/ \E sid \in Sessions, d \in HookInputs : HookAppend(sid, d)
    \/ \E sid \in Sessions : CopyFile(sid)
    \/ Load
    \/ Refresh

CopySpec == Init /\ [][CopyNext]_vars

-----------------------------------------------------------------------------
(* Load and refresh entry by entry, the hook writing in between: for each  *)
(* entry fs::metadata is one system call and fs::read_to_string a later    *)
(* one.                                                                    *)

\* the part of the state a scan leaves alone
ScanOnly ==
    UNCHANGED <<files, dir_exists, dir_error, clock, pend, cutRead, steps, view, probe, loop>>

\* the entry as it would be taken if the content were read first and the
\* modification time asked afterwards
EntryTakenReadFirst(first, second) ==
    [mtime |-> second.mtime, lines |-> first.lines, readable |-> first.readable]

\* What the manager takes of an entry: the modification time the file had
\* at the first call, the content it has at the second.
EntryTaken(first, second) ==
    [mtime |-> first.mtime, lines |-> second.lines, readable |-> second.readable]

\* TaskManager::load up to fs::read_dir: a new manager, and the entries of
\* the directory in the order the listing gives them
BeginLoad ==
    /\ ~running
    /\ scan.call = "none"
    /\ \E order \in Orders(IF dir_exists THEN DOMAIN files ELSE {}) :
          scan' = [call |-> "load", todo |-> order, held |-> <<>>]
    /\ tasks' = EmptyMap
    /\ file_mtimes' = EmptyMap
    /\ reads' = EmptyMap
    /\ result' = "ok"
    /\ step' = "Scan"
    /\ UNCHANGED <<running, app>>
    /\ ScanOnly

\* TaskManager::refresh up to fs::read_dir
BeginRefresh ==
    /\ running
    /\ scan.call = "none"
    /\ \E order \in Orders(IF dir_exists THEN DOMAIN files ELSE {}) :
          scan' = [call |-> "refresh", todo |-> order, held |-> <<>>]
    /\ reads' = EmptyMap
    /\ result' = "ok"
    /\ step' = "Scan"
    /\ UNCHANGED <<tasks, file_mtimes, running, app>>
    /\ ScanOnly

\* The first half of an iteration: the extension test and fs::metadata.
\* load caches the time at once; refresh compares it with the cached one
\* and goes to the next entry when it is not later. The file as it is now
\* is held for the second half, which uses the time of it.
StatEntry ==
    /\ scan.call # "none"
    /\ scan.todo # <<>>
    /\ scan.held = <<>>
    /\ LET p == Head(scan.todo)
           current_mtime == files[p].mtime
           should_reload == IF p \in DOMAIN file_mtimes
                            THEN current_mtime > file_mtimes[p]
                            ELSE TRUE
       IN IF p.ext # "jsonl" \/ (scan.call = "refresh" /\ ~should_reload)
          THEN /\ scan' = [scan EXCEPT !.todo = Tail(@)]
               /\ UNCHANGED file_mtimes
          ELSE /\ scan' = [scan EXCEPT !.held = <<files[p]>>]
               /\ file_mtimes' = IF scan.call = "load"
                                 THEN MapInsert(file_mtimes, p, current_mtime)
                                 ELSE file_mtimes
    /\ step' = "Scan"
    /\ UNCHANGED <<tasks, reads, result, running, app>>
    /\ ScanOnly

\* The second half: refresh drops the task under the file stem, the file
\* is read as it is now, and the time of the first half is cached.
ReadEntry ==
    /\ scan.held # <<>>
    /\ LET p == Head(scan.todo)
           taken == EntryTaken(scan.held[1], files[p])
           r == LoadSessionFile(IF scan.call = "refresh"
                                THEN MapRemove(tasks, p.stem) ELSE tasks,
                                taken)
       IN /\ tasks' = r.tasks
          /\ reads' = MapInsert(reads, p, ReadOutcome(r))
          /\ file_mtimes' = MapInsert(file_mtimes, p, taken.mtime)
    /\ scan' = [scan EXCEPT !.todo = Tail(@), !.held = <<>>]
    /\ step' = "Scan"
    /\ UNCHANGED <<result, running, app>>
    /\ ScanOnly

\* Ok(manager) of load, Ok(()) of refresh: the dashboard has its manager
EndScan ==
    /\ scan.call # "none"
    /\ scan.todo = <<>>
    /\ scan' = NoScan
    /\ running' = TRUE
    /\ app' = [state |-> "running", warned |-> FALSE]
    /\ step' = IF scan.call = "load" THEN "Load" ELSE "Refresh"
    /\ UNCHANGED <<tasks, file_mtimes, reads, result>>
    /\ ScanOnly

\* main of the hook on a filesystem whose clock has moved on since the
\* file was last written: the append advances the modification time
HookAppendLater(sid, d) ==
    \E now \in Instants :
        /\ now > FileOf(SessionPath(sid)).mtime
        /\ Written(SessionPath(sid),
                   Append(FileOf(SessionPath(sid)).lines, JsonLine(EventRecord(sid, d, now))),
                   now)

RaceNext ==
    \/ \E sid \in Sessions, d \in HookInputs : HookAppendLater(sid, d)
    \/ BeginLoad
    \/ BeginRefresh
    \/ StatEntry
    \/ ReadEntry
    \/ EndScan

RaceSpec == Init /\ [][RaceNext]_vars

-----------------------------------------------------------------------------
(* The control loop of the dashboard, statement by statement.              *)

\* what event::poll and event::read give in one iteration: no key within
\* the 100 ms, or the key pressed
Keys == {"none", "q", "Esc", "j", "r"}

\* KeyCode::Char('q') | KeyCode::Esc
QuitKeys == {"q", "Esc"}

\* the part of the state the statements of the loop other than
\* app.refresh() leave alone
LoopOnly ==
    UNCHANGED <<files, dir_exists, dir_error, clock, tasks, file_mtimes, reads, result,
                pend, cutRead, steps, running, view, probe, scan>>

\* where run_app goes after a statement that may have called
\* app.refresh(): `?` returns from the loop on Err
AfterCall(state, pc) == IF state = "exited" THEN "exited" ELSE pc

\* terminal.draw(|f| ui(f, &mut app))?
Draw ==
    /\ running
    /\ app.state = "running"
    /\ loop.pc = "draw"
    /\ loop' = [loop EXCEPT !.pc = "poll"]
    /\ step' = "Draw"
    /\ UNCHANGED app
    /\ LoopOnly

\* if event::poll(Duration::from_millis(100))? { match key.code ... }
Poll(key) ==
    /\ running
    /\ app.state = "running"
    /\ loop.pc = "poll"
    /\ IF key = "r"
       THEN RefreshCall
       ELSE step' = "Poll" /\ UNCHANGED app /\ LoopOnly
    /\ loop' = [pc |-> AfterCall(app'.state, "auto_refresh"),
                should_quit |-> loop.should_quit \/ key \in QuitKeys]

\* app.try_auto_refresh()?: a refresh when the interval has elapsed
TryAutoRefresh(due) ==
    /\ running
    /\ app.state = "running"
    /\ loop.pc = "auto_refresh"
    /\ IF due
       THEN RefreshCall
       ELSE step' = "Idle" /\ UNCHANGED app /\ LoopOnly
    /\ loop' = [loop EXCEPT !.pc = AfterCall(app'.state, "check")]

\* the loop as it would be without the test of the flag
LoopCheckNeverBreaks(should_quit) == "draw"

\* if app.should_quit { break; }
LoopCheck(should_quit) == IF should_quit THEN "exited" ELSE "draw"

CheckQuit ==
    /\ running
    /\ app.state = "running"
    /\ loop.pc = "check"
    /\ loop' = [loop EXCEPT !.pc = LoopCheck(loop.should_quit)]
    /\ app' = [app EXCEPT !.state = IF loop'.pc = "exited" THEN "exited" ELSE @]
    /\ step' = "Check"
    /\ LoopOnly

\* one statement of run_app
LoopStatement ==
    \/ Draw
    \/ \E key \in Keys : Poll(key)
    \/ \E due \in BOOLEAN : TryAutoRefresh(due)
    \/ CheckQuit

\* The hook runs beside the loop; one session and one of its events are
\* enough to give the refreshes of the loop something to read.
LoopNext ==
    \/ HookAppend("a", ToolInput)
    \/ Load
    \/ LoopStatement

LoopSpec == Init /\ [][LoopNext]_vars

\* The loop runs in one thread and none of its statements waits for ever:
\* event::poll gives up after 100 ms.
LoopFairSpec == LoopSpec /\ WF_vars(LoopStatement)

-----------------------------------------------------------------------------
(* The session file reader on its own: one file of any content out of      *)
(* ReaderLines, read by load_session_file into a new manager.              *)

\* a JSON object without field f
Without(o, f) == [g \in DOMAIN o \ {f} |-> o[g]]

\* a JSON object with field f set to v
With(o, f, v) == [g \in DOMAIN o \cup {f} |-> IF g = f THEN v ELSE o[g]]

ToolLine == EventRecord("a", ToolInput, 1)
StartLine == EventRecord("a", StartInput, 0)

ReaderLines ==
    {JsonLine(With(ToolLine, "status", st)) :
        st \in TaskStatus \cup {Null, "running"}}
    \cup {JsonLine(Without(ToolLine, "status")),
          JsonLine(StartLine),
          JsonLine(Without(With(StartLine, "message", ""), "tool")),
          JsonLine(With(With(StartLine, "message", "Unknown event"), "status", "stop")),
          JsonLine(With(EventRecord("b", ToolInput, 2), "status", "error")),
          JsonLine(Without(ToolLine, "cwd")),
          JsonLine(With(ToolLine, "timestamp", "yesterday")),
          CutLine(ToolLine),
          GarbageLine,
          BlankLine}

ReaderFiles == UNION {[1..n -> ReaderLines] : n \in 0..MaxLen}

ReaderInit ==
    /\ \E ls \in ReaderFiles :
          files = MapInsert(EmptyMap, SessionPath("a"),
                            [mtime |-> 0, readable |-> TRUE, lines |-> ls])
    /\ dir_exists = TRUE
    /\ dir_error = "none"
    /\ app = [state |-> "new", warned |-> FALSE]
    /\ view = NoView
    /\ probe = NoProbe
    /\ loop = NoLoop
    /\ scan = NoScan
    /\ clock = 1
    /\ tasks = EmptyMap
    /\ file_mtimes = EmptyMap
    /\ step = "Init"
    /\ reads = EmptyMap
    /\ result = "ok"
    /\ pend = EmptyMap
    /\ cutRead = EmptyMap
    /\ steps = 0
    /\ running = FALSE

\* manager.load_session_file(&file_path) on TaskManager::new(), as the
\* tests of the reader call it
ReadSessionFile ==
    /\ step = "Init"
    /\ LET r == LoadSessionFile(EmptyMap, files[SessionPath("a")])
       IN /\ tasks' = r.tasks
          /\ reads' = MapInsert(EmptyMap, SessionPath("a"), ReadOutcome(r))
          /\ result' = IF r.ok THEN "ok" ELSE "err"
    /\ step' = "Read"
    /\ UNCHANGED <<files, dir_exists, dir_error, clock, file_mtimes, pend, cutRead, steps,
                   running, app, view, probe, loop, scan>>

ReaderNext == ReadSessionFile

ReaderSpec == ReaderInit /\ [][ReaderNext]_vars

-----------------------------------------------------------------------------
(* The queries of the dashboard on a directory of up to three sessions.    *)

EndInput == [hook_event_name |-> "SessionEnd", tool_name |-> "", cwd |-> "/w1",
             tool_error |-> FALSE, asks_input |-> FALSE]
StopInput == [hook_event_name |-> "Stop", tool_name |-> "", cwd |-> "/w1",
              tool_error |-> FALSE, asks_input |-> FALSE]
FailedToolInput == [hook_event_name |-> "PostToolUse", tool_name |-> "Bash", cwd |-> "/w2",
                    tool_error |-> TRUE, asks_input |-> FALSE]

\* what the hook can have been called with for each session, and when
QueryCalls ==
    [a |-> {[d |-> StartInput, at |-> 0], [d |-> ToolInput, at |-> 1]},
     b |-> {[d |-> StartInput, at |-> 0], [d |-> EndInput, at |-> 1],
            [d |-> FailedToolInput, at |-> 1]},
     c |-> {[d |-> StopInput, at |-> 0], [d |-> ToolInput, at |-> 1]}]

\* the calls of the hook for one session, in the order of time
CallSeqs(sid) ==
    {cs \in UNION {[1..n -> QueryCalls[sid]] : n \in 0..MaxEvents} :
        \A i \in 1..(Len(cs) - 1) : cs[i].at <= cs[i + 1].at}

\* the session file these calls leave
CallsFile(sid, cs) ==
    [mtime |-> cs[Len(cs)].at, readable |-> TRUE,
     lines |-> [i \in 1..Len(cs) |-> JsonLine(EventRecord(sid, cs[i].d, cs[i].at))]]

QueryDirs ==
    {[p \in {SessionPath(sid) : sid \in {x \in DOMAIN calls : calls[x] # <<>>}} |->
         CallsFile(p.stem, calls[p.stem])] :
     calls \in {c \in [DOMAIN QueryCalls -> UNION {CallSeqs(sid) : sid \in DOMAIN QueryCalls}] :
                  \A sid \in DOMAIN QueryCalls : c[sid] \in CallSeqs(sid)}}

QueryInit ==
    /\ files \in {d \in QueryDirs : d # EmptyMap}
    /\ dir_exists = TRUE
    /\ dir_error = "none"
    /\ app = [state |-> "new", warned |-> FALSE]
    /\ view = NoView
    /\ probe = NoProbe
    /\ loop = NoLoop
    /\ scan = NoScan
    /\ clock = 1
    /\ tasks = EmptyMap
    /\ file_mtimes = EmptyMap
    /\ step = "Init"
    /\ reads = EmptyMap
    /\ result = "ok"
    /\ pend = EmptyMap
    /\ cutRead = EmptyMap
    /\ steps = 0
    /\ running = FALSE

QueryNext ==
    \/ Load
    \/ \E sid \in DOMAIN QueryCalls : QueryHasStarted(sid)
    \/ QueryAllTasks
    \/ QueryActiveTasks
    \/ QueryLatestTasksByWorktree
    \/ QueryStatusCounts

QuerySpec == QueryInit /\ [][QueryNext]_vars

-----------------------------------------------------------------------------
(* ClaudeTask::is_in_worktree. A path is the sequence of its characters.   *)

PathChars == {"/", "a", "b", "."}

\* Path::components of the component names: the text between separators,
\* from character i on; cur = the name begun, acc = the names so far
RECURSIVE Names(_, _, _, _)
Names(s, i, cur, acc) ==
    IF i > Len(s) THEN (IF cur = <<>> THEN acc ELSE Append(acc, cur))
    ELSE IF s[i] = "/"
         THEN Names(s, i + 1, <<>>, IF cur = <<>> THEN acc ELSE Append(acc, cur))
         ELSE Names(s, i + 1, Append(cur, s[i]), acc)

RootDir == <<"/">>
CurDir == <<".">>
ParentDir == <<".", ".">>

\* Path::components: RootDir for a leading separator; repeated and
\* trailing separators give nothing; a name "." gives nothing unless it
\* begins a relative path; ".." is kept as ParentDir
Components(s) ==
    LET names == Names(s, 1, <<>>, <<>>)
        absolute == Len(s) > 0 /\ s[1] = "/"
        kept == {i \in 1..Len(names) : names[i] # CurDir \/ (i = 1 /\ ~absolute)}
        nth(k) == CHOOSE i \in kept : Cardinality({j \in kept : j <= i}) = k
    IN (IF absolute THEN <<RootDir>> ELSE <<>>)
           \o [k \in 1..Cardinality(kept) |-> names[nth(k)]]

\* s starts with all of p
IsPrefix(p, s) == Len(s) >= Len(p) /\ \A i \in 1..Len(p) : s[i] = p[i]

\* The directories on disk, by their canonical components, and the
\* symbolic links with the directories they lead to: /a, /b and /b/a are
\* directories, /a/b is a link to /b; nothing else exists.
Dirs == {<<RootDir>>, <<RootDir, <<"a">>>>, <<RootDir, <<"b">>>>,
         <<RootDir, <<"b">>, <<"a">>>>}
Links == [l \in {<<RootDir, <<"a">>, <<"b">>>>} |-> <<RootDir, <<"b">>>>]

\* Path::canonicalize of an absolute path, from component i on; cur = the
\* canonical path of the components before: a link is followed, ".." goes
\* to the parent of the resolved path, a name that does not exist fails
RECURSIVE Resolve(_, _, _)
Resolve(comps, i, cur) ==
    IF i > Len(comps) THEN [ok |-> TRUE, path |-> cur]
    ELSE IF comps[i] = ParentDir
         THEN Resolve(comps, i + 1, IF Len(cur) > 1 THEN SubSeq(cur, 1, Len(cur) - 1) ELSE cur)
         ELSE LET next == Append(cur, comps[i])
              IN IF next \in DOMAIN Links THEN Resolve(comps, i + 1, Links[next])
                 ELSE IF next \in Dirs THEN Resolve(comps, i + 1, next)
                 ELSE [ok |-> FALSE, path |-> <<>>]

\* Path::new(s).canonicalize(): the empty path does not exist
Canonicalize(s) ==
    IF Len(s) = 0 \/ s[1] # "/" THEN [ok |-> FALSE, path |-> <<>>]
    ELSE Resolve(Components(s), 2, <<RootDir>>)

\* the fallback as it would be on the characters of the two paths
CharactersMatch(task_path, worktree_path) == IsPrefix(worktree_path, task_path)

\* The fallback of is_in_worktree: the task path has at least as many
\* components as the worktree path and starts with all of them.
ComponentsMatch(task_path, worktree_path) ==
    LET task_components == Components(task_path)
        wt_components == Components(worktree_path)
    IN IF Len(task_components) >= Len(wt_components)
       THEN \A i \in 1..Len(wt_components) : task_components[i] = wt_components[i]
       ELSE FALSE

\* ClaudeTask::is_in_worktree of a task with worktree_path task_path
IsInWorktree(task_path, worktree_path) ==
    LET task == Canonicalize(task_path)
        wt == Canonicalize(worktree_path)
    IN IF task.ok /\ wt.ok /\ (task.path = wt.path \/ IsPrefix(wt.path, task.path))
       THEN TRUE
       ELSE ComponentsMatch(task_path, worktree_path)

\* the absolute paths of up to MaxPath characters behind the separator
PathStrings == {<<"/">> \o s : s \in UNION {[1..n -> PathChars] : n \in 0..MaxPath}}

\* A task whose event had some working directory (the hook writes "" when
\* it was given none) is asked whether it is in some location.
PathInit ==
    /\ probe \in [cwd : PathStrings \cup {<<>>}, location : PathStrings]
    /\ loop = NoLoop
    /\ scan = NoScan
    /\ view = NoView
    /\ files = EmptyMap
    /\ dir_exists = FALSE
    /\ dir_error = "none"
    /\ app = [state |-> "new", warned |-> FALSE]
    /\ clock = 1
    /\ tasks = EmptyMap
    /\ file_mtimes = EmptyMap
    /\ step = "Init"
    /\ reads = EmptyMap
    /\ result = "ok"
    /\ pend = EmptyMap
    /\ cutRead = EmptyMap
    /\ steps = 0
    /\ running = FALSE

QueryIsInWorktree ==
    /\ step = "Init"
    /\ step' = "Query"
    /\ view' = [query |-> "is_in_worktree", of |-> "", order |-> <<>>,
                value |-> IsInWorktree(probe.cwd, probe.location)]
    /\ UNCHANGED <<files, dir_exists, dir_error, clock, tasks, file_mtimes, reads, result,
                   pend, cutRead, steps, running, app, probe, loop, scan>>

PathNext == QueryIsInWorktree

PathSpec == PathInit /\ [][PathNext]_vars

-----------------------------------------------------------------------------
(* The claims.                                                             *)

\* Option<&ClaudeTask> of get_task, as a sequence of at most one task
TaskOf(ts, sid) == IF sid \in DOMAIN ts THEN <<ts[sid]>> ELSE <<>>

\* the tasks a file gives when its lines are applied to an empty aggregator
Fresh(file) == LoadSessionFile(EmptyMap, file).tasks

\* the events the lines of a file decode to, in file order
DecodedEvents(lines) ==
    LET good == SelectSeq(lines, LAMBDA l : Decodes(l))
    IN [i \in 1..Len(good) |-> DecodedEvent(good[i])]

EventsOf(evs, sid) == SelectSeq(evs, LAMBDA e : e.session_id = sid)

\* the status of the last event that carries one, Stop when none does
LastExplicitStatus(evs) ==
    LET with == {i \in 1..Len(evs) : evs[i].status # None}
    IN IF with = {} THEN "stop"
       ELSE evs[CHOOSE i \in with : \A j \in with : j <= i].status

\* C1: after any non-empty sequence of events applied to one session, the
\* task's status is the status of the most recent event that carries an
\* explicit status, or Stop if no event carried one; the events applied are
\* the events of the session in order.
C1_StatusIsLastExplicit ==
    step = "Read" =>
        \A sid \in DOMAIN tasks :
            /\ tasks[sid].events =
                   EventsOf(DecodedEvents(files[SessionPath("a")].lines), sid)
            /\ tasks[sid].status = LastExplicitStatus(tasks[sid].events)

\* a task of three events: none, then an explicit status that is not the
\* default, then none again
C1_Witness ==
    /\ step = "Read"
    /\ "a" \in DOMAIN tasks
    /\ Len(tasks["a"].events) = 3
    /\ tasks["a"].events[1].status = None
    /\ tasks["a"].events[2].status = "error"
    /\ tasks["a"].events[3].status = None
    /\ tasks["a"].status = "error"

Count(lines, Test(_)) == Len(SelectSeq(lines, Test))

\* C8: load_session_file succeeds on every content and applies exactly the
\* lines that decode, in file order; every non-blank line that does not
\* decode is one parse error and stops nothing; blank lines are neither;
\* a file without events leaves no task.
C8_ReaderSkipsBadLines ==
    step = "Read" =>
        LET ls == files[SessionPath("a")].lines
            out == reads[SessionPath("a")]
            evs == DecodedEvents(ls)
        IN /\ result = "ok" /\ out.ok
           /\ out.valid_events = Len(evs)
           /\ out.parse_errors = Count(ls, LAMBDA l : l.kind # "blank" /\ ~Decodes(l))
           /\ out.valid_events + out.parse_errors + Count(ls, LAMBDA l : l.kind = "blank")
                  = Len(ls)
           /\ DOMAIN tasks = {evs[i].session_id : i \in 1..Len(evs)}
           /\ \A sid \in DOMAIN tasks : tasks[sid].events = EventsOf(evs, sid)

\* a bad line, then a blank line, then an event: the event is applied
C8_Witness ==
    /\ step = "Read"
    /\ LET ls == files[SessionPath("a")].lines
       IN /\ Len(ls) = 3
          /\ ls[1] = GarbageLine
          /\ ls[2] = BlankLine
          /\ Decodes(ls[3])
    /\ reads[SessionPath("a")].parse_errors = 1
    /\ reads[SessionPath("a")].valid_events = 1
    /\ "a" \in DOMAIN tasks

-----------------------------------------------------------------------------
(* The claims on load and refresh.                                         *)

Refreshes == {"Refresh", "RefreshAgain"}

\* the .jsonl files of the directory
SessionFiles == {p \in DOMAIN files : p.ext = "jsonl"}

\* the reads of the last load or refresh that succeeded, and that failed
OkReads == {p \in DOMAIN reads : reads[p].ok}
FailedReads == {p \in DOMAIN reads : ~reads[p].ok}

\* the task of the session of file p is what the content of p gives on its own
InSync(ts, p) == TaskOf(ts, p.stem) = TaskOf(Fresh(files[p]), p.stem)

\* C2: when refresh finds the file of a session changed, the task of the
\* session after the refresh is the task that the current lines of the
\* file give when applied to an empty aggregator (no task when the file
\* cannot be read): nothing of the earlier task is left.
C2_ChangedFileRebuilt ==
    step \in Refreshes => \A p \in DOMAIN reads : InSync(tasks, p)

\* a refresh has re-read a file that got a second event after the load
C2_Witness ==
    /\ step = "Refresh"
    /\ steps = 1
    /\ \E p \in OkReads :
          /\ p.stem \in DOMAIN tasks
          /\ Len(tasks[p.stem].events) = 2

\* C3: a refresh that follows a refresh with no step of the hook or of the
\* filesystem in between changes neither the tasks nor the cached
\* modification times and reads no file.
C3_RefreshIdempotent ==
    [][step' = "RefreshAgain" =>
          /\ tasks' = tasks
          /\ file_mtimes' = file_mtimes
          /\ reads' = EmptyMap]_vars

\* two refreshes in a row, the first of which has read a file the hook wrote
C3_Witness ==
    /\ step = "RefreshAgain"
    /\ \E p \in DOMAIN file_mtimes : PathState(pend, p) = "seen" /\ p.stem \in DOMAIN tasks

\* C4: in a refresh every file whose modification time equals its cached
\* value is not read, and its task and its cache entry stay as they were.
C4_UnchangedFilesSkipped ==
    [][step' \in Refreshes =>
          \A p \in SessionFiles :
              (p \in DOMAIN file_mtimes /\ files[p].mtime = file_mtimes[p]) =>
                  /\ p \notin DOMAIN reads'
                  /\ TaskOf(tasks', p.stem) = TaskOf(tasks, p.stem)
                  /\ p \in DOMAIN file_mtimes'
                  /\ file_mtimes'[p] = file_mtimes[p]]_vars

\* a refresh that has read one file and skipped another one
C4_Witness ==
    /\ step = "Refresh"
    /\ OkReads # {}
    /\ \E p \in SessionFiles \ DOMAIN reads :
          /\ p \in DOMAIN file_mtimes
          /\ file_mtimes[p] = files[p].mtime
          /\ p.stem \in DOMAIN tasks

\* C5: refresh reads a session file again if and only if the file has no
\* cache entry or its modification time differs from the cached value, be
\* it later or earlier.
C5_ReloadIffMtimeDiffers ==
    [][step' \in Refreshes =>
          \A p \in SessionFiles :
              (p \in DOMAIN reads') <=>
                  (p \notin DOMAIN file_mtimes \/ files[p].mtime # file_mtimes[p])]_vars

\* C6: a file gets a cache entry only in a call that has read it, and a
\* file whose read failed in the last load or refresh is read again by the
\* next refresh, whatever its modification time.
C6_FailedReadRetried ==
    [][step' \in Refreshes \cup {"Load"} =>
          /\ \A p \in DOMAIN file_mtimes' \ DOMAIN file_mtimes :
                 p \in DOMAIN reads' /\ reads'[p].ok
          /\ step' \in Refreshes =>
                 \A p \in SessionFiles \cap FailedReads : p \in DOMAIN reads']_vars

\* C7: after two writes of the hook that leave a file with one and the same
\* modification time, with a refresh reading the file between them, a
\* refresh that comes after the second write brings the task of the
\* session to the final content of the file.
C7_CoalescedWritePickedUp ==
    step \in Refreshes =>
        \A p \in SessionFiles : PathState(pend, p) = "coalesced" => InSync(tasks, p)

Front(s) == SubSeq(s, 1, Len(s) - 1)

\* a refresh that reads a file whose last line is half written takes that
\* line as one parse error and builds the task from the lines before it
CutLineSkipped ==
    step \in Refreshes =>
        \A p \in DOMAIN reads :
            (files[p].readable /\ LastLineCut(files[p])) =>
                /\ reads[p].ok
                /\ reads[p].parse_errors =
                       1 + Count(Front(files[p].lines), LAMBDA l : l.kind # "blank" /\ ~Decodes(l))
                /\ TaskOf(tasks, p.stem) =
                       TaskOf(Fresh([files[p] EXCEPT !.lines = Front(@)]), p.stem)

\* C9: a refresh that reads a file while the hook is half way through a line
\* counts the cut line as one parse error and builds the task from the
\* complete lines; once the line is complete and the file has a later
\* modification time than the cached one, the next refresh gives the task
\* that ends with the completed event.
C9_PartialLineTolerated ==
    [][/\ CutLineSkipped'
       /\ step' \in Refreshes =>
             \A p \in SessionFiles :
                 (/\ PathState(cutRead, p) = "cut"
                  /\ files[p].readable
                  /\ Len(files[p].lines) > 0
                  /\ Decodes(files[p].lines[Len(files[p].lines)])
                  /\ p \in DOMAIN file_mtimes
                  /\ files[p].mtime > file_mtimes[p]) =>
                     /\ p \in DOMAIN reads' /\ reads'[p].ok
                     /\ InSync(tasks', p)
                     /\ p.stem \in DOMAIN tasks'
                     /\ tasks'[p.stem].events[Len(tasks'[p.stem].events)] =
                            DecodedEvent(files[p].lines[Len(files[p].lines)])]_vars

\* a refresh has read the completed line of a file after an earlier refresh
\* had read the file with that line cut
C9_Witness ==
    /\ step \in Refreshes
    /\ \E p \in OkReads :
          /\ PathState(cutRead, p) = "healed"
          /\ p.stem \in DOMAIN tasks
          /\ Len(tasks[p.stem].events) = 2

\* C10: a load or refresh in which the read of a file fails returns Ok all
\* the same, and has read every readable session file it had to read (all
\* of them in load, the new and the changed ones in refresh) and built its
\* task, wherever the unreadable file came in the scan.
C10_ReadFailureIsLocal ==
    [][(step' \in Refreshes \cup {"Load"} /\ \E q \in DOMAIN reads' : ~reads'[q].ok) =>
          /\ result' = "ok"
          /\ \A p \in SessionFiles :
                 (/\ files[p].readable
                  /\ \/ step' = "Load"
                     \/ p \notin DOMAIN file_mtimes
                     \/ files[p].mtime > file_mtimes[p]) =>
                     /\ p \in DOMAIN reads' /\ reads'[p].ok
                     /\ InSync(tasks', p)]_vars

\* a load in which the read of one file has failed and another file was read
C10_Witness ==
    /\ step = "Load"
    /\ result = "ok"
    /\ FailedReads # {}
    /\ \E p \in OkReads : p.stem \in DOMAIN tasks

\* C19: a refresh that reads again a file whose content the manager has
\* already taken in, the cache entry being out of date, gives a task equal
\* to the one before: same status, same last message, same events.
C19_ReingestRoundTrip ==
    [][step' \in Refreshes =>
          \A p \in SessionFiles :
              (/\ p \in DOMAIN reads' /\ reads'[p].ok
               /\ p.stem \in DOMAIN tasks
               /\ InSync(tasks, p)) =>
                  /\ p.stem \in DOMAIN tasks'
                  /\ tasks'[p.stem].status = tasks[p.stem].status
                  /\ tasks'[p.stem].last_message = tasks[p.stem].last_message
                  /\ Len(tasks'[p.stem].events) = Len(tasks[p.stem].events)
                  /\ tasks'[p.stem] = tasks[p.stem]]_vars

\* a refresh has read again a file that got a later mtime and no other
\* content after the manager had read it
C19_Witness ==
    /\ step \in Refreshes
    /\ \E p \in OkReads :
          /\ PathState(pend, p) = "retaken"
          /\ p.stem \in DOMAIN tasks
          /\ files[p].mtime > 0

-----------------------------------------------------------------------------
(* The claims on the dashboard.                                            *)

\* C11: no error of the task manager ends the dashboard: after a load that
\* returned an error the dashboard runs on an empty manager, after a refresh
\* that returned an error the error is logged and the control loop runs on.
C11_ManagerErrorsNeverTerminate ==
    /\ app.state # "exited"
    /\ (step = "Load" /\ result = "err") =>
           /\ tasks = EmptyMap /\ file_mtimes = EmptyMap
           /\ app = [state |-> "running", warned |-> TRUE]
    /\ (step \in Refreshes /\ result = "err") =>
           app = [state |-> "running", warned |-> TRUE]

\* a refresh has failed on an entry of the directory after it had read a
\* file, and the dashboard is up with the tasks it has
C11_Witness ==
    /\ step \in Refreshes
    /\ result = "err"
    /\ dir_error = "entry"
    /\ OkReads # {}
    /\ tasks # EmptyMap
    /\ app.state = "running"

-----------------------------------------------------------------------------
(* The claims on the queries.                                              *)

\* a task of exactly one event, which is SessionStart
OnlySessionStart(task) ==
    Len(task.events) = 1 /\ task.events[1].event = "SessionStart"

\* C12: has_started is false for a task of exactly one SessionStart event,
\* true for a task whose one event is of another kind, and true for a task
\* of two or more events, whatever their kinds.
C12_HasStarted ==
    view.query = "has_started" =>
        LET task == tasks[view.of]
        IN /\ OnlySessionStart(task) => view.value = FALSE
           /\ (Len(task.events) = 1 /\ task.events[1].event # "SessionStart") =>
                  view.value = TRUE
           /\ Len(task.events) >= 2 => view.value = TRUE

\* has_started has answered true for a task of two SessionStart events
C12_Witness ==
    /\ view.query = "has_started"
    /\ view.value = TRUE
    /\ Len(tasks[view.of].events) = 2
    /\ \A i \in 1..2 : tasks[view.of].events[i].event = "SessionStart"

\* the elements of a sequence, and the place of an element in it
Range(s) == {s[i] : i \in 1..Len(s)}
Pos(s, x) == CHOOSE i \in 1..Len(s) : s[i] = x

\* C13: active_tasks returns exactly the tasks whose status is not
\* SessionEnded and that have started, each once, in the relative order
\* all_tasks gives them; a session of one SessionStart event is not in the
\* result, a started task in status Error or Stop is.
C13_ActiveTasks ==
    view.query = "active_tasks" =>
        LET all == AllTasks(tasks, view.order)
        IN /\ Range(view.value) =
                  {sid \in DOMAIN tasks :
                      tasks[sid].status # "session_ended" /\ ~OnlySessionStart(tasks[sid])}
           /\ Cardinality(Range(view.value)) = Len(view.value)
           /\ \A i, j \in 1..Len(view.value) :
                  i < j => Pos(all, view.value[i]) < Pos(all, view.value[j])
           /\ \A sid \in DOMAIN tasks :
                  (tasks[sid].status \in {"error", "stop"} /\ ~OnlySessionStart(tasks[sid])) =>
                      sid \in Range(view.value)

\* active_tasks has left out a session of one SessionStart event and an
\* ended session, and has returned a started task in status Stop
C13_Witness ==
    /\ view.query = "active_tasks"
    /\ \E sid \in DOMAIN tasks \ Range(view.value) : OnlySessionStart(tasks[sid])
    /\ \E sid \in DOMAIN tasks \ Range(view.value) : tasks[sid].status = "session_ended"
    /\ \E sid \in Range(view.value) : tasks[sid].status = "stop"

\* a sequence of tasks with each last_update not earlier than the next
LatestFirst(ts, s) ==
    \A i \in 1..(Len(s) - 1) : ts[s[i]].last_update >= ts[s[i + 1]].last_update

\* C14: latest_tasks_by_worktree returns one task for each distinct working
\* directory among the tasks; the task returned for a directory has a
\* last_update not earlier than that of any task of the same directory; the
\* result is sorted by last_update, latest first.
C14_LatestTasksByWorktree ==
    view.query = "latest_tasks_by_worktree" =>
        /\ Range(view.value) \subseteq DOMAIN tasks
        /\ Cardinality(Range(view.value)) = Len(view.value)
        /\ \A sid \in DOMAIN tasks :
               Cardinality({x \in Range(view.value) :
                               tasks[x].worktree_path = tasks[sid].worktree_path}) = 1
        /\ \A x \in Range(view.value) : \A sid \in DOMAIN tasks :
               tasks[sid].worktree_path = tasks[x].worktree_path =>
                   tasks[x].last_update >= tasks[sid].last_update
        /\ LatestFirst(tasks, view.value)

\* three sessions, two of them in one directory with different times of
\* last update: two tasks are returned
C14_Witness ==
    /\ view.query = "latest_tasks_by_worktree"
    /\ Cardinality(DOMAIN tasks) = 3
    /\ Len(view.value) = 2
    /\ \E x \in Range(view.value) : \E sid \in DOMAIN tasks \ Range(view.value) :
           /\ tasks[sid].worktree_path = tasks[x].worktree_path
           /\ tasks[sid].last_update < tasks[x].last_update

\* C15: all_tasks returns every task of the map exactly once, each with a
\* last_update not earlier than that of the task after it.
C15_AllTasksSorted ==
    view.query = "all_tasks" =>
        /\ Range(view.value) = DOMAIN tasks
        /\ Len(view.value) = Cardinality(DOMAIN tasks)
        /\ LatestFirst(tasks, view.value)

\* all_tasks has returned three tasks that the map has yielded with the
\* earliest first
C15_Witness ==
    /\ view.query = "all_tasks"
    /\ Len(view.value) = 3
    /\ tasks[view.order[1]].last_update < tasks[view.order[3]].last_update
    /\ view.value # view.order

\* C16: the order all_tasks returns is the same whatever the order in
\* which the map yields the tasks, also for tasks with equal last_update.
C16_AllTasksDeterministic ==
    view.query = "all_tasks" =>
        \A order \in Orders(DOMAIN tasks) : AllTasks(tasks, order) = view.value

-----------------------------------------------------------------------------
(* The claims on is_in_worktree.                                           *)

\* the paths of the examples: /a and /ab
PathA == <<"/", "a">>
PathAB == <<"/", "a", "b">>

\* C17: when one of the two paths cannot be canonicalized, is_in_worktree
\* is true if and only if the components of the location are a prefix of
\* the components of the task's directory, whole components compared: the
\* location /a does not match the directory /ab.
C17_ComponentPrefix ==
    view.query = "is_in_worktree" =>
        /\ (~Canonicalize(probe.cwd).ok \/ ~Canonicalize(probe.location).ok) =>
               view.value = IsPrefix(Components(probe.location), Components(probe.cwd))
        /\ (probe.cwd = PathAB /\ probe.location = PathA) => view.value = FALSE
        /\ (probe.cwd = PathA /\ probe.location = PathAB) => view.value = FALSE

\* the directory /ab, which does not exist, has been asked against /a
C17_Witness ==
    /\ view.query = "is_in_worktree"
    /\ probe.cwd = PathAB
    /\ probe.location = PathA
    /\ ~Canonicalize(probe.cwd).ok
    /\ view.value = FALSE

\* C18: when both paths canonicalize, is_in_worktree is true exactly when
\* the canonical path of the task's directory is the canonical path of the
\* location or a descendant of it.
C18_CanonicalDecides ==
    view.query = "is_in_worktree" =>
        LET task == Canonicalize(probe.cwd)
            wt == Canonicalize(probe.location)
        IN (task.ok /\ wt.ok) =>
               view.value = (task.path = wt.path \/ IsPrefix(wt.path, task.path))

-----------------------------------------------------------------------------
(* The claims on the last message.                                         *)

\* a message that is not empty and not the sentinel
Meaningful(message) == message # "" /\ message # "Unknown event"

\* C20: the last_message of a task is the message of the most recent of
\* its events, the creating one included, whose message is not empty and
\* not "Unknown event"; an empty message or the sentinel is never the
\* last_message of a task.
C20_LastMessageMeaningful ==
    step = "Read" =>
        \A sid \in DOMAIN tasks :
            LET evs == tasks[sid].events
                with == {i \in 1..Len(evs) : Meaningful(evs[i].message)}
            IN /\ with # {} =>
                      tasks[sid].last_message =
                          evs[CHOOSE i \in with : \A j \in with : j <= i].message
               /\ Meaningful(tasks[sid].last_message)

-----------------------------------------------------------------------------
(* The claims on the fields of a task.                                     *)

\* C21: for every task, start_time is the timestamp of the first event of
\* its list, whatever came later; last_update is the timestamp and
\* worktree_path the cwd of the last event of the list, also when that
\* timestamp is earlier than one before it.
C21_TimesAndDirectory ==
    step = "Read" =>
        \A sid \in DOMAIN tasks :
            LET evs == tasks[sid].events
            IN /\ Len(evs) > 0
               /\ tasks[sid].start_time = evs[1].timestamp
               /\ tasks[sid].last_update = evs[Len(evs)].timestamp
               /\ tasks[sid].worktree_path = evs[Len(evs)].cwd

\* a task whose last event is earlier than its first and comes from
\* another directory
C21_Witness ==
    /\ step = "Read"
    /\ "a" \in DOMAIN tasks
    /\ LET evs == tasks["a"].events
       IN /\ Len(evs) = 2
          /\ evs[1].timestamp > evs[2].timestamp
          /\ evs[1].cwd # evs[2].cwd
          /\ tasks["a"].last_update < tasks["a"].start_time

\* a complete line that has every required field and no status field
StatusLess(line) ==
    /\ line.kind = "json"
    /\ ~line.cut
    /\ \A f \in RequiredFields : f \in DOMAIN line.obj /\ line.obj[f] # Null
    /\ IsTimestamp(line.obj["timestamp"])
    /\ "status" \notin DOMAIN line.obj

\* C22: a line with every required field and no status field decodes to
\* an event without a status: it is counted as one more valid event and no
\* parse error, it is appended to the event list of its session, and the
\* status of a task that existed before the line is what it was.
C22_StatusFieldOptional ==
    LET file == files[SessionPath("a")]
        n == Len(file.lines)
    IN (step = "Read" /\ n > 0 /\ StatusLess(file.lines[n])) =>
           LET before == LoadSessionFile(EmptyMap,
                             [file EXCEPT !.lines = Front(file.lines)])
               sid == file.lines[n].obj["session_id"]
               was == TaskOf(before.tasks, sid)
               out == reads[SessionPath("a")]
           IN /\ out.valid_events = before.valid_events + 1
              /\ out.parse_errors = before.parse_errors
              /\ sid \in DOMAIN tasks
              /\ Len(tasks[sid].events) =
                     (IF was = <<>> THEN 0 ELSE Len(was[1].events)) + 1
              /\ Front(tasks[sid].events) =
                     (IF was = <<>> THEN <<>> ELSE was[1].events)
              /\ tasks[sid].events[Len(tasks[sid].events)].status = None
              /\ was # <<>> => tasks[sid].status = was[1].status

\* a task put in the error status by one line and left there by a line
\* without a status field
C22_Witness ==
    LET lines == files[SessionPath("a")].lines
    IN /\ step = "Read"
       /\ Len(lines) = 2
       /\ "status" \in DOMAIN lines[1].obj
       /\ StatusLess(lines[2])
       /\ "a" \in DOMAIN tasks
       /\ tasks["a"].status = "error"
       /\ Len(tasks["a"].events) = 2
       /\ reads[SessionPath("a")].valid_events = 2

-----------------------------------------------------------------------------
(* The claim on the counts by status.                                      *)

\* the sum of the values of a map to numbers
RECURSIVE SumOf(_)
SumOf(m) ==
    IF DOMAIN m = {} THEN 0
    ELSE LET k == CHOOSE x \in DOMAIN m : TRUE
         IN m[k] + SumOf([x \in DOMAIN m \ {k} |-> m[x]])

\* C23: status_counts maps each status to the number of tasks in that
\* status; the counts sum to the number of tasks, and a status that no
\* task has is not a key of the map.
C23_StatusCounts ==
    view.query = "status_counts" =>
        /\ DOMAIN view.value = {tasks[sid].status : sid \in DOMAIN tasks}
        /\ \A st \in DOMAIN view.value :
               view.value[st] =
                   Cardinality({sid \in DOMAIN tasks : tasks[sid].status = st})
        /\ SumOf(view.value) = Cardinality(DOMAIN tasks)

\* three tasks, two of them in the same status, and a status nobody has
C23_Witness ==
    /\ view.query = "status_counts"
    /\ Cardinality(DOMAIN tasks) = 3
    /\ \E st \in DOMAIN view.value : view.value[st] = 2
    /\ Cardinality(DOMAIN view.value) = 2

-----------------------------------------------------------------------------
(* The claims on a directory or a file that is not there.                  *)

\* C24: while the progress directory does not exist, load returns
\* successfully with no task and an empty cache, and refresh returns
\* successfully and leaves the task map and the cache as they were.
C24_MissingDirectoryIsNoError ==
    [][~dir_exists =>
          /\ step' = "Load" =>
                 /\ result' = "ok"
                 /\ ~app'.warned
                 /\ tasks' = EmptyMap
                 /\ file_mtimes' = EmptyMap
          /\ step' \in Refreshes =>
                 /\ result' = "ok"
                 /\ ~app'.warned
                 /\ tasks' = tasks
                 /\ file_mtimes' = file_mtimes]_vars

\* a refresh that has found the directory gone and kept the tasks and the
\* cache the manager had
C24_Witness ==
    /\ step \in Refreshes
    /\ ~dir_exists
    /\ result = "ok"
    /\ tasks # EmptyMap
    /\ file_mtimes # EmptyMap

\* the files the manager has ingested that are no longer in the directory
Disappeared == DOMAIN file_mtimes \ DOMAIN files

\* C25: a refresh that no longer finds in the directory a session file it
\* has ingested earlier leaves the task of that session and the cache entry
\* of that file as they were.
C25_DisappearedFileKept ==
    [][step' \in Refreshes =>
          \A p \in Disappeared :
              /\ p \in DOMAIN file_mtimes'
              /\ file_mtimes'[p] = file_mtimes[p]
              /\ TaskOf(tasks', p.stem) = TaskOf(tasks, p.stem)]_vars

\* a refresh after which the manager holds the task and the cache entry
\* of a file that is gone
C25_Witness ==
    /\ step \in Refreshes
    /\ \E p \in Disappeared : p.stem \in DOMAIN tasks

\* C29: when refresh finds a file changed and cannot read it, the task
\* the manager held for the session of that file is still in the task map,
\* as it was, after the refresh.
C29_FailedRereadKeepsTask ==
    [][step' \in Refreshes =>
          \A p \in DOMAIN reads' :
              (~reads'[p].ok /\ p.stem \in DOMAIN tasks) =>
                  TaskOf(tasks', p.stem) = TaskOf(tasks, p.stem)]_vars

-----------------------------------------------------------------------------
(* The claim on the task map.                                              *)

\* the number of events in the lists of all the tasks of ts
RECURSIVE EventsHeld(_)
EventsHeld(ts) ==
    IF DOMAIN ts = {} THEN 0
    ELSE LET k == CHOOSE x \in DOMAIN ts : TRUE
         IN Len(ts[k].events) + EventsHeld([x \in DOMAIN ts \ {k} |-> ts[x]])

\* C26: the task map has one task for each session identifier met, stored
\* under the session_id it carries; every event of a task's list carries
\* that session_id; every event applied is in exactly one list, and each
\* list holds the events of its session in the order they were ingested.
C26_OneTaskPerSession ==
    step = "Read" =>
        LET applied == DecodedEvents(files[SessionPath("a")].lines)
        IN /\ DOMAIN tasks = {applied[i].session_id : i \in 1..Len(applied)}
           /\ \A sid \in DOMAIN tasks :
                  /\ tasks[sid].session_id = sid
                  /\ \A i \in 1..Len(tasks[sid].events) :
                         tasks[sid].events[i].session_id = sid
                  /\ tasks[sid].events = EventsOf(applied, sid)
           /\ EventsHeld(tasks) = Len(applied)

\* one file has given two tasks: an event of session b between two events
\* of session a
C26_Witness ==
    /\ step = "Read"
    /\ DOMAIN tasks = {"a", "b"}
    /\ Len(tasks["a"].events) = 2
    /\ Len(tasks["b"].events) = 1
    /\ LET applied == DecodedEvents(files[SessionPath("a")].lines)
       IN Len(applied) = 3 /\ applied[2].session_id = "b"

-----------------------------------------------------------------------------
(* The claim on the control loop.                                          *)

\* C27: once a quit key has been read and the quit flag is set, the loop
\* neither draws nor polls again: what is left of the iteration is the
\* auto-refresh check and the test of the flag, and the loop ends there.
C27_QuitEndsLoop ==
    /\ [](loop.should_quit => loop.pc \in {"auto_refresh", "check", "exited"})
    /\ (loop.should_quit ~> loop.pc = "exited")

\* the loop has ended on the flag, after a refresh in its last iteration
C27_Witness ==
    /\ loop.should_quit
    /\ loop.pc = "exited"
    /\ app.state = "exited"
    /\ reads # EmptyMap
    /\ steps > 0

-----------------------------------------------------------------------------
(* The claims on what a refresh does to the tasks it held.                 *)

\* the lines of the session files of the directory that decode to an event
\* of session sid
RECURSIVE LinesOf(_, _)
LinesOf(P, sid) ==
    IF P = {} THEN 0
    ELSE LET p == CHOOSE x \in P : TRUE
         IN Len(EventsOf(DecodedEvents(files[p].lines), sid)) + LinesOf(P \ {p}, sid)

\* C28: whatever loads and refreshes have run, no line of a session file
\* is in the event list of a task more than once, also when the session_id
\* of the line is not the base name of its file. No file of CopySpec ever
\* loses a line, so there a task never holds more events than the files
\* of the directory have lines of its session.
C28_NoLineTwice ==
    \A sid \in DOMAIN tasks :
        Len(tasks[sid].events) <= LinesOf(SessionFiles, sid)

-----------------------------------------------------------------------------
(* The claim on the order of the two system calls of an entry.             *)

\* the scan is between the two halves of the iteration of entry p
Visiting(p) == scan.held # <<>> /\ Head(scan.todo) = p

\* C30: the cached modification time of a file is never later than the
\* time of the file on disk, and outside the iteration of the file it is
\* the time on disk only when the task of the session is what the file
\* holds now. An append that advances the time and lands between the two
\* system calls, or after them, leaves the cached time behind and makes
\* the next refresh read the file.
C30_SampledBeforeRead ==
    \A p \in DOMAIN file_mtimes :
        /\ p \in DOMAIN files
        /\ file_mtimes[p] <= files[p].mtime
        /\ (file_mtimes[p] = files[p].mtime /\ ~Visiting(p)) => InSync(tasks, p)

\* a scan has ended with the line in the task that the hook appended
\* between the two system calls, and with the earlier time in the cache
C30_Witness ==
    /\ scan.call = "none"
    /\ running
    /\ \E p \in DOMAIN file_mtimes :
          /\ file_mtimes[p] < files[p].mtime
          /\ Len(files[p].lines) >= 2
          /\ InSync(tasks, p)

====
